---- MODULE Spec2Model ----
(***************************************************************************)
(* Model of pyutils: effhist (efficiency histogram, effhist.py) and        *)
(* transpose (funcs.py).                                                   *)
(*                                                                         *)
(* effhist is a straight-line function; it is modelled as one call whose   *)
(* position pc advances statement group by statement group, so that what   *)
(* had been computed when an exception is raised stays visible.            *)
(*                                                                         *)
(* Numbers.  Sample values, explicit edges and range ends are integers.    *)
(* Equal-width edges are the rationals mn + i*(mx-mn)/n; they are kept     *)
(* exactly as integers over a common denominator (bin_edges.scale).        *)
(* Efficiencies are exact fractions <<num, den>>.  The rough error is a    *)
(* square root; an error e is kept as the exact fraction of e*e.           *)
(* Floating-point rounding is not modelled.                                *)
(*                                                                         *)
(* numpy.histogram and boolean-mask indexing are library code.  They are   *)
(* modelled from numpy's behaviour; where numpy releases that can run this *)
(* code differ, every outcome is allowed (see MaskIndex, Histogram).       *)
(***************************************************************************)
EXTENDS Integers, Sequences, FiniteSets, TLC

VARIABLES
    x, success, bins, range, full_errors, return_all,   \* arguments of effhist
    pc,                                                 \* position in effhist
    hist_x, bin_edges, hist_success, valid, p, perr,    \* locals of effhist
    result, error,                                      \* returned triple / raised exception
    it, t1, t2, tpc, terror                             \* transpose: argument, results, position

effvars == <<x, success, bins, range, full_errors, return_all, pc,
             hist_x, bin_edges, hist_success, valid, p, perr, result, error>>
tvars == <<it, t1, t2, tpc, terror>>
vars == <<effvars, tvars>>

\* ---------------------------------------------------------------- bounds
MaxLen == 2      \* longest x and success
MaxVal == 2      \* sample values, edges and range ends are in 0..MaxVal
MaxBins == 2     \* largest integer bin count; explicit edge lists have up to MaxBins+1 edges
MaxRows == 2     \* transpose: most rows
MaxCols == 2     \* transpose: longest row
MaxElem == 1     \* transpose: elements are in 0..MaxElem

SeqsUpTo(S, n) == UNION {[1..k -> S] : k \in 0..n}

Values == 0..MaxVal

\* ---------------------------------------------------------------- helpers
RECURSIVE SumSeq(_)
SumSeq(s) == IF s = <<>> THEN 0 ELSE Head(s) + SumSeq(Tail(s))

MinOf(a) == CHOOSE m \in {a[i] : i \in DOMAIN a} : \A i \in DOMAIN a : m <= a[i]
MaxOf(a) == CHOOSE m \in {a[i] : i \in DOMAIN a} : \A i \in DOMAIN a : m >= a[i]

\* The entries of a at the positions listed (in order) in idx.
RECURSIVE TakeIdx(_, _)
TakeIdx(a, idx) ==
    IF idx = <<>> THEN <<>> ELSE <<a[Head(idx)]>> \o TakeIdx(a, Tail(idx))

\* mask.nonzero(): the positions where mask is true, ascending.
RECURSIVE NonZeroFrom(_, _)
NonZeroFrom(mask, k) ==
    IF k > Len(mask) THEN <<>>
    ELSE (IF mask[k] THEN <<k>> ELSE <<>>) \o NonZeroFrom(mask, k + 1)
NonZero(mask) == NonZeroFrom(mask, 1)

\* ---------------------------------------------------------------- numpy.histogram
\* Number of entries of a lying strictly below / at or below the edge e/S.
CountBelow(a, S, e) == Cardinality({i \in DOMAIN a : a[i] * S < e})
CountUpTo(a, S, e) == Cardinality({i \in DOMAIN a : a[i] * S <= e})

\* sorted(a).searchsorted(e[:-1], 'left') followed by searchsorted(e[-1], 'right'):
\* the cumulative counts at the edges, the last edge taken inclusively.
\* Faulty variants: every edge exclusive / every edge inclusive.
SearchSortedLeft(a, edges) ==
    [k \in 1..Len(edges.e) |-> CountBelow(a, edges.scale, edges.e[k])]
SearchSortedRight(a, edges) ==
    [k \in 1..Len(edges.e) |-> CountUpTo(a, edges.scale, edges.e[k])]
SearchSortedInclusive(a, edges) ==
    [k \in 1..Len(edges.e) |->
        IF k < Len(edges.e) THEN CountBelow(a, edges.scale, edges.e[k])
                            ELSE CountUpTo(a, edges.scale, edges.e[k])]

\* np.diff
Diff(c) == [k \in 1..(Len(c) - 1) |-> c[k + 1] - c[k]]

\* Faulty variant: the last bin half-open like the others.
HistCountsHalfOpen(a, edges) == Diff(SearchSortedLeft(a, edges))
\* The counts np.histogram returns for data a over the given edges.
HistCounts(a, edges) == Diff(SearchSortedInclusive(a, edges))

\* Edges given explicitly (denominator 1).
ExplicitEdges(e) == [scale |-> 1, e |-> e]

\* linspace(mn, mx, n+1) after numpy widens an empty interval mn = mx by 0.5 on
\* each side.  Edge i is (n*lo2 + (i-1)*(hi2-lo2)) / (2n), lo2 = 2*mn', hi2 = 2*mx'.
UniformEdges(n, mn, mx) ==
    LET d == IF mn = mx THEN 1 ELSE 0
        lo2 == 2 * mn - d
        hi2 == 2 * mx + d
    IN [scale |-> 2 * n, e |-> [i \in 1..(n + 1) |-> n * lo2 + (i - 1) * (hi2 - lo2)]]

\* The (mn, mx) numpy bins over: the range argument, else (min, max) of the
\* data, else (0, 1) for no data.
OuterEdges(a, rng) ==
    IF rng # <<>> THEN rng
    ELSE IF a = <<>> THEN <<0, 1>>
    ELSE <<MinOf(a), MaxOf(a)>>

IsCount(b) == "n" \in DOMAIN b

\* numpy rejects an integer bin count below 1 ...
CountRejected(n) == n < 1
\* (faulty variant: equal neighbours rejected too)
EdgesRejectedStrict(e) == \E k \in 1..(Len(e) - 1) : e[k] >= e[k + 1]
\* ... an explicit edge list in which some edge is below its predecessor ...
EdgesRejected(e) == \E k \in 1..(Len(e) - 1) : e[k] > e[k + 1]
\* ... and a range with max below min.
RangeRejected(rng) == rng # <<>> /\ rng[1] > rng[2]

\* ---------------------------------------------------------------- x[success]
\* Boolean-mask indexing.  numpy >= 1.13 raises IndexError unless the mask is as
\* long as the array; earlier releases index with mask.nonzero() and raise
\* IndexError only for a true entry beyond the end of the array.
MaskStrictOk(a, mask) == Len(mask) = Len(a)
MaskLenientOk(a, mask) == \A k \in DOMAIN mask : mask[k] => k <= Len(a)
MaskIndex(a, mask) == TakeIdx(a, NonZero(mask))

\* ---------------------------------------------------------------- effhist
Zeros(n) == [i \in 1..n |-> <<0, 1>>]
One == <<1, 1>>

\* Faulty variant of line 55, np.histogram(x[success], bins=bins): the success
\* histogram binned over its own data instead of over bin_edges.
OwnEdges(a, b, rng, edges) ==
    IF IsCount(b) /\ b.n >= 1
    THEN UniformEdges(b.n, OuterEdges(a, <<>>)[1], OuterEdges(a, <<>>)[2])
    ELSE edges
\* line 55, bins=bin_edges: the success histogram of the data a = x[success],
\* in a call with arguments bins = b and range = rng, is taken over the edges
\* of the total histogram.
SuccessEdges(a, b, rng, edges) == edges

\* line 58
ValidBins(hx) == [i \in DOMAIN hx |-> hx[i] > 0]

\* lines 61-63: success/total in the valid bins, 0 elsewhere.
Efficiency(hx, hs, vld) ==
    [i \in DOMAIN hx |-> IF vld[i] THEN <<hs[i], hx[i]>> ELSE <<0, 1>>]

\* lines 106-108: the square of sqrt(p(1-p)/n) is s(n-s)/n^3 for p = s/n.
RoughSquared(pi, n) == <<pi[1] * (pi[2] - pi[1]), pi[2] * pi[2] * n>>
\* Faulty variant: the flag err_high = 1 set where p is 0 instead of where the
\* bin is empty.
RoughPerrFlagZero(pp, hx, vld) ==
    << [i \in DOMAIN pp |-> IF vld[i] THEN RoughSquared(pp[i], hx[i]) ELSE <<0, 1>>],
       [i \in DOMAIN pp |-> IF pp[i][1] # 0 THEN RoughSquared(pp[i], hx[i]) ELSE One] >>
RoughPerr(pp, hx, vld) ==
    << [i \in DOMAIN pp |-> IF vld[i] THEN RoughSquared(pp[i], hx[i]) ELSE <<0, 1>>],
       [i \in DOMAIN pp |-> IF vld[i] THEN RoughSquared(pp[i], hx[i]) ELSE One] >>

\* line 111: (edges[:-1] + edges[1:]) / 2, over the denominator 2*scale.
BinCenters(edges) ==
    [scale |-> 2 * edges.scale,
     c |-> [i \in 1..(Len(edges.e) - 1) |-> edges.e[i] + edges.e[i + 1]]]

\* a[vld]: the entries of a where vld is true.
Keep(a, vld) == TakeIdx(a, NonZero(vld))

\* Faulty variant: the centers not filtered with p and perr.
ReturnedUnfilteredCenters(all, centers, pp, pe, vld) ==
    IF all THEN [centers |-> centers.c, p |-> pp, perr |-> pe]
    ELSE [centers |-> centers.c, p |-> Keep(pp, vld),
          perr |-> <<Keep(pe[1], vld), Keep(pe[2], vld)>>]
\* lines 113-116
Returned(all, centers, pp, pe, vld) ==
    IF all THEN [centers |-> centers.c, p |-> pp, perr |-> pe]
    ELSE [centers |-> Keep(centers.c, vld), p |-> Keep(pp, vld),
          perr |-> <<Keep(pe[1], vld), Keep(pe[2], vld)>>]

NoEdges == [scale |-> 1, e |-> <<>>]
NoResult == [centers |-> <<>>, p |-> <<>>, perr |-> <<>>]

BinSpecs ==
    {[n |-> k] : k \in 0..MaxBins} \cup {[edges |-> e] : e \in SeqsUpTo(Values, MaxBins + 1)}
Ranges == {<<>>} \cup (Values \X Values)

TInit == it = <<>> /\ t1 = <<>> /\ t2 = <<>> /\ tpc = "idle" /\ terror = "none"

Init ==
    /\ x \in SeqsUpTo(Values, MaxLen)
    /\ success \in SeqsUpTo(BOOLEAN, MaxLen)
    /\ bins \in BinSpecs
    /\ range \in IF IsCount(bins) THEN Ranges ELSE {<<>>}
    /\ full_errors \in BOOLEAN
    /\ return_all \in BOOLEAN
    /\ pc = "entry"
    /\ hist_x = <<>> /\ bin_edges = NoEdges /\ hist_success = <<>>
    /\ valid = <<>> /\ p = <<>> /\ perr = <<>>
    /\ result = NoResult /\ error = "none"
    /\ TInit

Raise(e) ==
    /\ pc' = "failed"
    /\ error' = e

\* lines 47-52: hist_x, bin_edges = np.histogram(x, bins=bins, range=range)
Histogram ==
    /\ pc = "entry"
    /\ IF IsCount(bins)
       THEN IF CountRejected(bins.n) \/ RangeRejected(range)
            THEN \* which argument numpy looks at first differs between releases
                 /\ \E e \in {"ValueError(bins)", "ValueError(range)"} :
                        /\ e = "ValueError(bins)" => CountRejected(bins.n)
                        /\ e = "ValueError(range)" => RangeRejected(range)
                        /\ Raise(e)
                 /\ UNCHANGED <<hist_x, bin_edges>>
            ELSE LET o == OuterEdges(x, range)
                     edges == UniformEdges(bins.n, o[1], o[2])
                 IN /\ bin_edges' = edges
                    /\ hist_x' = HistCounts(x, edges)
                    /\ pc' = "binned"
                    /\ UNCHANGED error
       ELSE IF EdgesRejected(bins.edges)
            THEN Raise("ValueError(bins)") /\ UNCHANGED <<hist_x, bin_edges>>
            ELSE \/ /\ bin_edges' = ExplicitEdges(bins.edges)
                    /\ hist_x' = HistCounts(x, ExplicitEdges(bins.edges))
                    /\ pc' = "binned"
                    /\ UNCHANGED error
                 \/ \* numpy < 1.11 reads bins[-1] for every block of data
                    /\ bins.edges = <<>> /\ x # <<>>
                    /\ Raise("IndexError(bins[-1])")
                    /\ UNCHANGED <<hist_x, bin_edges>>
    /\ UNCHANGED <<x, success, bins, range, full_errors, return_all,
                   hist_success, valid, p, perr, result>>
    /\ UNCHANGED tvars

\* line 55: hist_success, bin_edges = np.histogram(x[success], bins=bin_edges)
HistogramSuccess ==
    /\ pc = "binned"
    /\ \E lenient \in BOOLEAN :
         IF (IF lenient THEN MaskLenientOk(x, success) ELSE MaskStrictOk(x, success))
         THEN /\ hist_success' =
                   HistCounts(MaskIndex(x, success),
                              SuccessEdges(MaskIndex(x, success), bins, range, bin_edges))
              /\ pc' = "masked"
              /\ UNCHANGED error
         ELSE Raise("IndexError(mask)") /\ UNCHANGED hist_success
    /\ UNCHANGED <<x, success, bins, range, full_errors, return_all,
                   hist_x, bin_edges, valid, p, perr, result>>
    /\ UNCHANGED tvars

\* lines 57-66: valid, p, and perr = zeros((2, len(p)))
Rates ==
    /\ pc = "masked"
    /\ valid' = ValidBins(hist_x)
    /\ p' = Efficiency(hist_x, hist_success, ValidBins(hist_x))
    /\ perr' = <<Zeros(Len(hist_x)), Zeros(Len(hist_x))>>
    /\ pc' = "rates"
    /\ UNCHANGED <<x, success, bins, range, full_errors, return_all,
                   hist_x, bin_edges, hist_success, result, error>>
    /\ UNCHANGED tvars

\* lines 69-70: "for i in range(len(p))" calls the argument named range (None or
\* a pair), which shadows the builtin: TypeError, before the loop body runs.
FullErrors ==
    /\ pc = "rates"
    /\ full_errors
    /\ Raise("TypeError(range)")
    /\ UNCHANGED <<x, success, bins, range, full_errors, return_all,
                   hist_x, bin_edges, hist_success, valid, p, perr, result>>
    /\ UNCHANGED tvars

\* lines 104-108
RoughErrors ==
    /\ pc = "rates"
    /\ ~full_errors
    /\ perr' = RoughPerr(p, hist_x, valid)
    /\ pc' = "errors"
    /\ UNCHANGED <<x, success, bins, range, full_errors, return_all,
                   hist_x, bin_edges, hist_success, valid, p, result, error>>
    /\ UNCHANGED tvars

\* lines 110-116
Return ==
    /\ pc = "errors"
    /\ result' = Returned(return_all, BinCenters(bin_edges), p, perr, valid)
    /\ pc' = "done"
    /\ UNCHANGED <<x, success, bins, range, full_errors, return_all,
                   hist_x, bin_edges, hist_success, valid, p, perr, error>>
    /\ UNCHANGED tvars

Next == Histogram \/ HistogramSuccess \/ Rates \/ FullErrors \/ RoughErrors \/ Return

Spec == Init /\ [][Next]_vars

\* ---------------------------------------------------------------- transpose (funcs.py)
\* line 71: some row differs in length from the first.
Ragged(m) == \E j \in DOMAIN m : Len(m[j]) # Len(m[1])

\* Faulty variant of line 73, the two comprehensions exchanged: no transposition.
RowsKept(m) == [j \in 1..Len(m) |-> [i \in 1..Len(m[1]) |-> m[j][i]]]
\* line 73: [[row[i] for row in it] for i in range(rowlen)]
Columns(m) == [i \in 1..Len(m[1]) |-> [j \in 1..Len(m) |-> m[j][i]]]

\* lines 68-73, for an argument that is not ragged.
Transpose(m) == IF Len(m) = 0 THEN <<>> ELSE Columns(m)

Elems == 0..MaxElem
Tables == SeqsUpTo(SeqsUpTo(Elems, MaxCols), MaxRows)

\* No effhist call in progress.
EffIdle ==
    /\ x = <<>> /\ success = <<>> /\ bins = [n |-> 1] /\ range = <<>>
    /\ full_errors = FALSE /\ return_all = FALSE
    /\ pc = "idle"
    /\ hist_x = <<>> /\ bin_edges = NoEdges /\ hist_success = <<>>
    /\ valid = <<>> /\ p = <<>> /\ perr = <<>>
    /\ result = NoResult /\ error = "none"

InitT ==
    /\ EffIdle
    /\ it \in Tables
    /\ t1 = <<>> /\ t2 = <<>> /\ tpc = "idle" /\ terror = "none"

\* transpose(it)
TransposeCall ==
    /\ tpc = "idle"
    /\ IF Len(it) # 0 /\ Ragged(it)
       THEN tpc' = "failed" /\ terror' = "ValueError" /\ UNCHANGED t1
       ELSE tpc' = "once" /\ t1' = Transpose(it) /\ UNCHANGED terror
    /\ UNCHANGED <<it, t2>>
    /\ UNCHANGED effvars

\* transpose(transpose(it))
TransposeBack ==
    /\ tpc = "once"
    /\ IF Len(t1) # 0 /\ Ragged(t1)
       THEN tpc' = "failed" /\ terror' = "ValueError" /\ UNCHANGED t2
       ELSE tpc' = "twice" /\ t2' = Transpose(t1) /\ UNCHANGED terror
    /\ UNCHANGED <<it, t1>>
    /\ UNCHANGED effvars

NextT == TransposeCall \/ TransposeBack

SpecT == InitT /\ [][NextT]_vars

\* ================================================================ properties
\* The total histogram has been computed (line 52 returned).
Binned ==
    \/ pc \in {"binned", "masked", "rates", "errors", "done"}
    \/ pc = "failed" /\ error \in {"IndexError(mask)", "TypeError(range)"}
\* The success histogram has been computed (line 55 returned).
Masked ==
    \/ pc \in {"masked", "rates", "errors", "done"}
    \/ pc = "failed" /\ error = "TypeError(range)"
\* p has been computed (line 63 done).
Rated ==
    \/ pc \in {"rates", "errors", "done"}
    \/ pc = "failed" /\ error = "TypeError(range)"
Finished == pc \in {"done", "failed"}
SameLength == Len(x) = Len(success)
NBins == Len(hist_x)
IsZero(q) == q[1] = 0
IsOne(q) == q[1] = q[2]
\* The bins with entries, and the rank of bin i among them.
NonEmptyBins == {i \in 1..NBins : hist_x[i] > 0}
Rank(i) == Cardinality({j \in NonEmptyBins : j <= i})
\* v lies in bin i: [edge i, edge i+1), the last bin closed on the right.
InBin(v, i) ==
    /\ bin_edges.e[i] <= v * bin_edges.scale
    /\ IF i = NBins THEN v * bin_edges.scale <= bin_edges.e[i + 1]
                    ELSE v * bin_edges.scale < bin_edges.e[i + 1]

\* C1 (as claimed): with return_all, once a call on equal-length input whose bins
\* were accepted has ended, every bin with total count zero has been returned
\* with p = 0, err_low = 0 and err_high = 1, in approximate and in exact mode.
C1_EmptyBinsReturnedFlagged ==
    \A i \in 1..NBins :
        (return_all /\ SameLength /\ Binned /\ Finished /\ hist_x[i] = 0)
        => /\ pc = "done"
           /\ IsZero(result.p[i])
           /\ IsZero(result.perr[1][i])
           /\ IsOne(result.perr[2][i])

\* The bins and range arguments are well formed: a positive count with range
\* absent or low <= high, or at least 2 strictly increasing edges.
WellFormedBins ==
    IF IsCount(bins) THEN bins.n >= 1 /\ (range = <<>> \/ range[1] <= range[2])
    ELSE /\ Len(bins.edges) >= 2
         /\ \A k \in 1..(Len(bins.edges) - 1) : bins.edges[k] < bins.edges[k + 1]

\* C2 (as claimed): a call with len(x) # len(success) (bins well formed,
\* approximate mode) ends with the input error and returns no result.
C2_MismatchRejected ==
    (~SameLength /\ WellFormedBins /\ ~full_errors /\ Finished) =>
        /\ pc = "failed"
        /\ error = "IndexError(mask)"
        /\ result = NoResult

C4_SuccessWithinTotal ==
    /\ (SameLength /\ Masked) =>
          \A i \in 1..NBins : 0 <= hist_success[i] /\ hist_success[i] <= hist_x[i]
    /\ (SameLength /\ Rated) =>
          \A i \in 1..NBins : 0 <= p[i][1] /\ p[i][1] <= p[i][2] /\ p[i][2] > 0
    /\ (SameLength /\ pc = "done") =>
          \A k \in DOMAIN result.p :
              0 <= result.p[k][1] /\ result.p[k][1] <= result.p[k][2] /\ result.p[k][2] > 0
C4_Witness ==
    /\ pc = "done" /\ SameLength
    /\ \E k \in DOMAIN result.p : 0 < result.p[k][1] /\ result.p[k][1] < result.p[k][2]
    /\ \E i \in 1..NBins : hist_x[i] = 0

\* Every value of x lies in [low, high] of the range argument.
RangeCovers == range # <<>> /\ \A j \in DOMAIN x : range[1] <= x[j] /\ x[j] <= range[2]

\* C5 (as claimed): for well-formed bins the total counts sum to at most len(x),
\* and to exactly len(x) when range is absent or covers every value of x.
C5_SumEqualWhenRangeAbsentOrCovers ==
    (Binned /\ WellFormedBins) =>
        /\ SumSeq(hist_x) <= Len(x)
        /\ (range = <<>> \/ RangeCovers) => SumSeq(hist_x) = Len(x)

\* C5 (amended): the total counts sum to the number of values of x between the
\* first and the last edge (each counted once, the others not at all), hence to
\* at most len(x); and to exactly len(x) when bins is an integer count and
\* range is absent or covers every value of x.
C5_SumWithinLen ==
    Binned =>
        /\ SumSeq(hist_x) <= Len(x)
        /\ NBins >= 1 =>
              SumSeq(hist_x) =
                  Cardinality({j \in DOMAIN x :
                                  /\ bin_edges.e[1] <= x[j] * bin_edges.scale
                                  /\ x[j] * bin_edges.scale <= bin_edges.e[NBins + 1]})
        /\ (IsCount(bins) /\ (range = <<>> \/ RangeCovers)) => SumSeq(hist_x) = Len(x)
C5_Witness ==
    /\ pc = "done" /\ IsCount(bins) /\ bins.n = 2 /\ range # <<>>
    /\ Len(x) = 2 /\ SumSeq(hist_x) = 1

\* C6: a returned triple holds, with return_all, all nbins bins, and without it
\* exactly the bins with total count > 0 in their order; entry k of centers, p
\* and both rows of perr belongs to the same bin.
C6_ReturnedBins ==
    pc = "done" =>
        /\ Len(result.centers) = Len(result.p)
        /\ Len(result.perr) = 2
        /\ Len(result.perr[1]) = Len(result.p)
        /\ Len(result.perr[2]) = Len(result.p)
        /\ Len(result.p) = IF return_all THEN NBins ELSE Cardinality(NonEmptyBins)
        /\ \A i \in 1..NBins :
              (return_all \/ hist_x[i] > 0) =>
                  LET k == IF return_all THEN i ELSE Rank(i)
                  IN /\ result.centers[k] = bin_edges.e[i] + bin_edges.e[i + 1]
                     /\ result.p[k] = p[i]
                     /\ result.perr[1][k] = perr[1][i]
                     /\ result.perr[2][k] = perr[2][i]
C6_Witness ==
    /\ pc = "done" /\ ~return_all
    /\ NBins = 2 /\ hist_x[1] = 0 /\ hist_x[2] > 0
    /\ Len(result.p) = 1
    /\ result.centers[1] = bin_edges.e[2] + bin_edges.e[3]
    /\ ~IsZero(result.p[1]) /\ ~IsOne(result.p[1])

\* C7: each bin counts the values in [edge i, edge i+1), the last bin also the
\* values equal to the rightmost edge; the success histogram counts the
\* successful values by the same rule.
C7_EdgeConvention ==
    /\ Binned =>
          \A i \in 1..NBins :
              hist_x[i] = Cardinality({j \in DOMAIN x : InBin(x[j], i)})
    /\ (SameLength /\ Masked) =>
          \A i \in 1..NBins :
              hist_success[i] = Cardinality({j \in DOMAIN x : success[j] /\ InBin(x[j], i)})
C7_Witness ==
    /\ pc = "done" /\ SameLength /\ NBins = 2 /\ Len(x) = 2
    /\ bin_edges.e[1] < bin_edges.e[2] /\ bin_edges.e[2] < bin_edges.e[3]
    /\ x[1] * bin_edges.scale = bin_edges.e[3] /\ success[1]
    /\ x[2] * bin_edges.scale = bin_edges.e[2] /\ success[2]
    /\ hist_x = <<0, 2>> /\ hist_success = <<0, 2>>

AllFalse == \A j \in DOMAIN success : ~success[j]

\* C8: when every outcome is false, each bin with total count > 0 is valid with
\* p = 0; a triple returned without return_all keeps exactly those bins, and the
\* approximate errors of such a bin are 0 on both sides (not the flag 1).
C8_AllFalseBinsValid ==
    (SameLength /\ AllFalse) =>
        /\ Rated => \A i \in NonEmptyBins : valid[i] /\ IsZero(p[i])
        /\ pc = "done" =>
              /\ ~return_all => Len(result.p) = Cardinality(NonEmptyBins)
              /\ \A i \in NonEmptyBins :
                    LET k == IF return_all THEN i ELSE Rank(i)
                    IN /\ IsZero(result.p[k])
                       /\ IsZero(result.perr[1][k])
                       /\ IsZero(result.perr[2][k])
                       /\ ~IsOne(result.perr[2][k])
C8_Witness ==
    /\ pc = "done" /\ SameLength /\ AllFalse /\ ~return_all
    /\ Len(x) = 2 /\ NBins = 2 /\ hist_x = <<0, 2>>
    /\ Len(result.p) = 1

\* C9 (as claimed): a call with full_errors fails only for its input (bins,
\* range or mask rejected); otherwise it runs to the return.
C9_FullErrorsCompletes ==
    (full_errors /\ pc = "failed") =>
        error \in {"ValueError(bins)", "ValueError(range)",
                   "IndexError(bins[-1])", "IndexError(mask)"}

\* Rows of one length.
Rectangular(m) == \A j \in DOMAIN m : Len(m[j]) = Len(m[1])

\* C10 (as claimed): for rows of one length (length zero and the empty list
\* included) transposing twice gives the argument back and entry [i][j] of the
\* transpose is it[j][i]; rows of different lengths raise ValueError.
C10_RoundTripAllRectangular ==
    /\ Rectangular(it) =>
          /\ tpc # "failed"
          /\ tpc = "twice" => t2 = it
          /\ tpc \in {"once", "twice"} =>
                \A i \in DOMAIN t1 : \A j \in DOMAIN t1[i] : t1[i][j] = it[j][i]
    /\ (~Rectangular(it) /\ tpc # "idle") => (tpc = "failed" /\ terror = "ValueError")

\* C10 (amended): for rows of one length >= 1, and for the empty list,
\* transposing twice gives the argument back; one or more rows of length zero
\* transpose to the empty list, and so does that.  The transpose of rows of one
\* length has as many rows as they are long, each as long as the argument, with
\* entry [i][j] equal to it[j][i].  Rows of different lengths raise ValueError.
C10_RoundTrip ==
    /\ Rectangular(it) =>
          /\ tpc # "failed"
          /\ (tpc = "twice" /\ (it = <<>> \/ Len(it[1]) >= 1)) => t2 = it
          /\ (tpc = "twice" /\ it # <<>> /\ Len(it[1]) = 0) => (t1 = <<>> /\ t2 = <<>>)
          /\ (tpc \in {"once", "twice"} /\ it # <<>>) =>
                /\ Len(t1) = Len(it[1])
                /\ \A i \in DOMAIN t1 :
                      /\ Len(t1[i]) = Len(it)
                      /\ \A j \in DOMAIN t1[i] : t1[i][j] = it[j][i]
          /\ (tpc \in {"once", "twice"} /\ it = <<>>) => t1 = <<>>
    /\ (~Rectangular(it) /\ tpc # "idle") => (tpc = "failed" /\ terror = "ValueError")
C10_Witness ==
    /\ tpc = "twice" /\ Len(it) = 2 /\ Len(it[1]) = 2
    /\ it[1][2] # it[2][1]
    /\ t2 = it /\ t1 # it

====
